---- MODULE Spec2Model ----
(***************************************************************************)
(* Comment store, threaded listing and ranking of the policy comment API.  *)
(*                                                                         *)
(*   POST   /api/policies/[id]/comments   PostComment                     *)
(*   GET    /api/policies/[id]/comments   ListComments                    *)
(*   POST   /api/comments/[id]/vote       VoteComment                     *)
(*   DELETE /api/comments/[id]            DeleteComment                   *)
(*                                                                         *)
(* A comment row is a record; its identifier is its index in `comments`    *)
(* (rows are never removed).  Null is the SQL NULL of parentId, deletedAt  *)
(* and of an absent request parameter.                                     *)
(*                                                                         *)
(* PostComment .. ListComments run a handler from request to response      *)
(* without another request in between.  The actions on `calls` run the     *)
(* handlers query by query, so that requests interleave at their awaits.   *)
(***************************************************************************)
EXTENDS Integers, Sequences, FiniteSets, TLC

VARIABLES comments, req, resp, fetched, chain, calls,
          rateLimitMap, now, admitted,
          user, organization, organizationMember, accessRequest,
          policy, endorsement, petitionSignature,
          client

\* the comment store with its ghosts, and the state of the other routes
commentState == <<comments, fetched, chain>>

limiterState == <<rateLimitMap, now, admitted>>

orgState == <<user, organization, organizationMember, accessRequest>>

policyState == <<policy, endorsement, petitionSignature>>

others == <<limiterState, orgState, policyState, client>>

\* what the handlers of one group of routes leave alone
notLimiter == <<commentState, orgState, policyState, client>>

notOrgs == <<commentState, limiterState, policyState, client>>

notPolicies == <<commentState, limiterState, orgState, client>>

notClient == <<comments, limiterState, orgState, policyState>>

vars == <<comments, req, resp, fetched, chain, calls, others>>

----------------------------------------------------------------------------
(* Bounds of the model *)

MaxComments == 3        \* rows the store may hold
MaxVotes == 1           \* votes cast over the whole store
MaxWrites == 4          \* successful writes (posts, votes, deletes)
MaxPages == 3           \* pages of a run of "load more" requests that are kept
MaxCount == 1           \* vote counter values of the ranking stores
MaxCalls == 2           \* requests in flight at the same time
WriteVotes == 2         \* votes cast in the specification of the writes
ScenarioExtra == 1      \* writes after the scenario store
SmallTake == 1          \* page size of the paging specification
SmallWindow == 2        \* its candidate window
PagingComments == 4     \* its rows
PagingWrites == 6       \* its successful writes
RateWindow == 3      \* RATE_LIMIT_WINDOW_MS of the limiter, in clock ticks
RateMax == 2         \* RATE_LIMIT_MAX of the limiter
MaxTime == 3         \* the clock of the limiter stops here
MaxOrgs == 2            \* organizations created
MaxOrgRows == 3         \* organizations and access requests created
StepOrgs == 1           \* organizations of the specification of the queries
StepOrgRows == 2        \* its organizations and access requests
EndorseOrgs == 1        \* organizations of the specification of the endorsements
MaxListed == 4          \* comments the section loads before "load more" stops
take == 2               \* page size; the handler's `take` is 20, scaled down
Window == 3             \* candidate window of popular/controversial; 200 in
                        \* the handler, scaled down with `take`

(* Program constants, used where a scenario is stated with the real sizes *)
PageSize == 20
CandidateWindow == 200

Null == 0
SomeDate == 1                             \* a non-null deletedAt (new Date())
LaterDate == 2                            \* new Date() of a later millisecond
NoUser == "anonymous"                     \* auth() returned no userId
Authors == {"u1"}                         \* signed-in users who write comments
Users == {"u1", "u2"}                     \* signed-in users
PolicyIds == {"p1", "p2"}                 \* published, non-deleted policies
ThePolicy == "p1"                         \* the policy of the listing specifications
DraftPolicy == "p3"
UnknownPolicy == "p0"
Contents == {"a", "b"}                    \* comment contents

\* x-forwarded-for of a request; "unknown" when the header is absent
Ips == {"10.0.0.1", "unknown"}

----------------------------------------------------------------------------
(* Helpers on sequences *)

Ids(db) == 1..Len(db)

Range(s) == {s[k] : k \in 1..Len(s)}

Min2(a, b) == IF a < b THEN a ELSE b

Abs(x) == IF x < 0 THEN -x ELSE x

\* a slice that keeps everything
KeepAll(s, n) == s

FirstN(s, n) == SubSeq(s, 1, Min2(n, Len(s)))        \* Array.slice(0, n) / LIMIT n

DropN(s, n) == SubSeq(s, Min2(n, Len(s)) + 1, Len(s)) \* OFFSET n

\* String.prototype.trim on the request bodies of the model
Trim(b) == CASE b = " a " -> "a"
             [] b = " b " -> "b"
             [] b = "  " -> ""
             [] OTHER -> b

----------------------------------------------------------------------------
(* The ORM queries of GET, as the sets of results the database may return. *)
(* ORDER BY createdAt leaves the order of rows with equal createdAt open.  *)

\* every sequence of the ids in S that is ordered by createdAt descending
RECURSIVE OrderDesc(_, _)
OrderDesc(db, S) ==
  IF S = {} THEN {<<>>}
  ELSE UNION { {<<x>> \o s : s \in OrderDesc(db, S \ {x})} :
               x \in {y \in S : \A z \in S : db[z].createdAt <= db[y].createdAt} }

\* replies ordered newest first
OrderAscNewestFirst(db, S) == OrderDesc(db, S)

\* every sequence of the ids in S that is ordered by createdAt ascending
RECURSIVE OrderAsc(_, _)
OrderAsc(db, S) ==
  IF S = {} THEN {<<>>}
  ELSE UNION { {<<x>> \o s : s \in OrderAsc(db, S \ {x})} :
               x \in {y \in S : \A z \in S : db[y].createdAt <= db[z].createdAt} }

\* a row as serialised in a response
Row(db, i) == [id |-> i, content |-> db[i].content, deletedAt |-> db[i].deletedAt,
               createdAt |-> db[i].createdAt, userId |-> db[i].userId,
               policyId |-> db[i].policyId, parentId |-> db[i].parentId,
               upvotes |-> db[i].upvotes, downvotes |-> db[i].downvotes]

RowSeq(db, ids) == [k \in 1..Len(ids) |-> Row(db, ids[k])]

\* include: { replies: { where: { deletedAt: null }, orderBy: { createdAt: "asc" } } }
LiveReplies(db, i) == {j \in Ids(db) : db[j].parentId = i /\ db[j].deletedAt = Null}

IncludeReplies(db, i) ==
  {[row |-> Row(db, i), replies |-> RowSeq(db, rs)] : rs \in OrderAsc(db, LiveReplies(db, i))}

\* the rows of ids, each with one of its possible reply lists
RECURSIVE WithReplies(_, _)
WithReplies(db, ids) ==
  IF ids = <<>> THEN {<<>>}
  ELSE {<<it>> \o rest : it \in IncludeReplies(db, Head(ids)),
                         rest \in WithReplies(db, Tail(ids))}

\* cursor: { id: cursor }: the rows at or after the cursor row in the
\* ordering, i.e. createdAt <= the cursor row's createdAt; no row when the
\* cursor names no row
AfterCursor(db, S, cursor) ==
  IF cursor = Null THEN S
  ELSE IF cursor \notin Ids(db) THEN {}
  ELSE {i \in S : db[i].createdAt <= db[cursor].createdAt}

LiveTopLevel(db, policyId) ==
  {i \in Ids(db) : db[i].policyId = policyId /\ db[i].parentId = Null
                   /\ db[i].deletedAt = Null}

\* first findMany of GET: live top-level comments, newest first
FindLive(db, policyId, cursor, limit) ==
  UNION { WithReplies(db, FirstN(DropN(o, IF cursor = Null THEN 0 ELSE 1), limit)) :
          o \in OrderDesc(db, AfterCursor(db, LiveTopLevel(db, policyId), cursor)) }

\* without the filter replies: { some: { deletedAt: null } }
DeletedTopLevelAny(db, policyId) ==
  {i \in Ids(db) : db[i].policyId = policyId /\ db[i].parentId = Null
                   /\ db[i].deletedAt # Null}

DeletedTopLevelWithReplies(db, policyId) ==
  {i \in Ids(db) : db[i].policyId = policyId /\ db[i].parentId = Null
                   /\ db[i].deletedAt # Null /\ LiveReplies(db, i) # {}}

\* second findMany of GET: soft-deleted top-level comments with a live reply
FindDeletedWithReplies(db, policyId) ==
  UNION { WithReplies(db, o) :
          o \in OrderDesc(db, DeletedTopLevelWithReplies(db, policyId)) }

\* a count of the top-level comments only
CountLiveTopLevel(db, policyId) ==
  Cardinality({i \in Ids(db) : db[i].policyId = policyId /\ db[i].deletedAt = Null
                               /\ db[i].parentId = Null})

\* prisma.comment.count({ where: { policyId, deletedAt: null } })
CountLive(db, policyId) ==
  Cardinality({i \in Ids(db) : db[i].policyId = policyId /\ db[i].deletedAt = Null})

----------------------------------------------------------------------------
(* Ranking of GET: Array.prototype.sort is stable, and orders by the sign  *)
(* of the comparator.                                                      *)

\* popular: (a, b) => b.upvotes - b.downvotes - (a.upvotes - a.downvotes)
popularScore(c) == c.upvotes - c.downvotes

\* the comparator with a and b exchanged
PopularAscending(a, b) == popularScore(a.row) < popularScore(b.row)

PopularPrecedes(a, b) == popularScore(a.row) > popularScore(b.row)

\* controversyScore as the fraction num / den (0 / 1 when there are no votes)
controversyScore(c) ==
  LET total == c.upvotes + c.downvotes
  IN IF total = 0 THEN [num |-> 0, den |-> 1]
     ELSE [num |-> total, den |-> Abs(c.upvotes - c.downvotes) + 1]

FracGt(p, q) == p.num * q.den > q.num * p.den

\* the popular comparator in place of the controversy score
ControversialByPopularity(a, b) == popularScore(a.row) > popularScore(b.row)

ControversialPrecedes(a, b) == FracGt(controversyScore(a.row), controversyScore(b.row))

\* the comparator of a sort mode is negative: a is placed before b
Precedes(sort, a, b) ==
  IF sort = "popular" THEN PopularPrecedes(a, b) ELSE ControversialPrecedes(a, b)

\* r with x inserted before the first element that x must precede
Insert(r, x, sort) ==
  LET later == {k \in 1..Len(r) : Precedes(sort, x, r[k])}
      pos == IF later = {} THEN Len(r) + 1
             ELSE CHOOSE k \in later : \A m \in later : k <= m
  IN SubSeq(r, 1, pos - 1) \o <<x>> \o SubSeq(r, pos, Len(r))

\* Array.prototype.sort with the comparator of the sort mode
StableSort(s, sort) ==
  LET F[k \in 0..Len(s)] == IF k = 0 THEN <<>> ELSE Insert(F[k - 1], s[k], sort)
  IN F[Len(s)]

Rank(sort, all) ==
  IF sort = "popular" \/ sort = "controversial" THEN StableSort(all, sort) ELSE all

\* no filter
NoDedup(all) == all

\* seen-set filter: the first occurrence of every id is kept
Dedup(all) ==
  LET keep == {k \in 1..Len(all) : \A m \in 1..(k - 1) : all[m].row.id # all[k].row.id}
      F[k \in 0..Len(all)] ==
        IF k = 0 THEN <<>>
        ELSE IF k \in keep THEN Append(F[k - 1], all[k]) ELSE F[k - 1]
  IN F[Len(all)]

\* request.nextUrl.searchParams.get("sort") || "newest"
SortOf(sortParam) == IF sortParam = "" THEN "newest" ELSE sortParam

Windowed(sort) == sort = "popular" \/ sort = "controversial"

\* the body of a 200 response of GET, from the results of its three queries
Assemble(sort, allComments, count, tk) ==
  LET all == Rank(sort, allComments)
      hasMore == Len(all) > tk
      page == FirstN(all, tk)
  IN [status |-> 200, comments |-> page, hasMore |-> hasMore,
      nextCursor |-> IF hasMore THEN page[Len(page)].row.id ELSE Null,
      totalCount |-> count]

ItemIds(items) == [k \in 1..Len(items) |-> items[k].row.id]

\* every run GET may take on store db, with page size tk and window win:
\* its response, and the ids of the deduplicated concatenation of the two
\* query results in the order they were fetched
GET(db, policyId, sortParam, cursorParam, tk, win) ==
  IF policyId \notin PolicyIds THEN {[resp |-> [status |-> 404], fetched |-> <<>>]}
  ELSE
    LET sort == SortOf(sortParam)
        cursor == IF sort = "newest" THEN cursorParam ELSE Null
        limit == IF Windowed(sort) THEN win ELSE tk + 1
    IN {[resp |-> Assemble(sort, Dedup(l \o d), CountLive(db, policyId), tk),
         fetched |-> ItemIds(Dedup(l \o d))] :
          l \in FindLive(db, policyId, cursor, limit),
          d \in FindDeletedWithReplies(db, policyId)}

----------------------------------------------------------------------------
(* State *)

TotalVotes(db) ==
  LET F[k \in 0..Len(db)] ==
        IF k = 0 THEN 0 ELSE F[k - 1] + db[k].upvotes + db[k].downvotes
  IN F[Len(db)]

\* DEFAULT CURRENT_TIMESTAMP of a new row: requests of one run arrive in
\* different milliseconds
Timestamp(db) == IF db = <<>> THEN 1 ELSE db[Len(db)].createdAt + 1

NumDeleted(db) == Cardinality({k \in Ids(db) : db[k].deletedAt # Null})

\* successful writes that led to db: every row was posted, every vote cast,
\* every deletedAt set by one request
Writes(db) == Len(db) + TotalVotes(db) + NumDeleted(db)

\* the requests in flight; none in the specifications of whole handlers
Procs == 1..MaxCalls

NoCalls == [p \in Procs |-> [pc |-> "idle"]]

\* the module-level Map of the analyze route is empty when the process
\* starts; `admitted` is the log of the requests that passed isRateLimited
InitLimiter ==
  /\ rateLimitMap = [ip \in Ips |-> <<>>]
  /\ now = 0
  /\ admitted = [ip \in Ips |-> <<>>]

\* no organization yet
InitOrgs ==
  /\ user = {}
  /\ organization = {}
  /\ organizationMember = {}
  /\ accessRequest = <<>>

\* the policies of the comment store are published, one further policy is
\* a draft; none belongs to an organization
InitPolicyRows ==
  {[id |-> id, organizationId |-> Null, published |-> TRUE, deletedAt |-> Null] :
     id \in PolicyIds}
    \cup {[id |-> DraftPolicy, organizationId |-> Null, published |-> FALSE,
           deletedAt |-> Null]}

InitPolicies ==
  /\ policy = InitPolicyRows
  /\ endorsement = {}
  /\ petitionSignature = <<>>

\* useState of CommentSection
InitClient ==
  client = [sort |-> "newest", comments |-> <<>>, hasMore |-> FALSE,
            nextCursor |-> Null]

InitOthers == InitLimiter /\ InitOrgs /\ InitPolicies /\ InitClient

Init ==
  /\ comments = <<>>
  /\ req = [op |-> "none"]
  /\ resp = [status |-> 0]
  /\ fetched = <<>>
  /\ chain = <<>>
  /\ calls = NoCalls
  /\ InitOthers

\* Request parameters.  One request stands for each early return that does
\* not depend on the other parameters.
PostInputs(db) ==
  {<<NoUser, "p1", " a ", Null>>, <<"u1", "p1", "  ", Null>>,
   <<"u1", UnknownPolicy, " a ", Null>>}
  \cup (Authors \X {ThePolicy} \X {" a "} \X (0..(Len(db) + 1)))

\* the same with comments on every policy
PostInputsAnyPolicy(db) ==
  PostInputs(db) \cup (Authors \X PolicyIds \X {" a "} \X (0..(Len(db) + 1)))

VoteInputs(db) ==
  {<<NoUser, 1, "up">>, <<"u1", 1, "sideways">>}
  \cup ({"u2"} \X (1..(Len(db) + 1)) \X {"up", "down"})

DeleteInputs(db) ==
  {<<NoUser, 1>>} \cup (Users \X (1..(Len(db) + 1)))

ListInputs(db) ==
  {<<UnknownPolicy, "", Null>>}
  \cup ({ThePolicy} \X {"newest", "popular", "controversial"} \X (0..(Len(db) + 1)))
  \cup ({ThePolicy} \X {"oldest", ""} \X {Null})

\* findFirst({ where: { id, deletedAt: null } }) of vote and DELETE
FindLiveComment(db, commentId) ==
  commentId \in Ids(db) /\ db[commentId].deletedAt = Null

\* findFirst({ where: { id: parentId, policyId, deletedAt: null } }) of POST
FindParent(db, parentId, policyId) ==
  /\ parentId \in Ids(db)
  /\ db[parentId].policyId = policyId
  /\ db[parentId].deletedAt = Null

\* no nesting check
NeverAReply(db, parentId) == FALSE

\* if (parent.parentId): the parent is itself a reply
ParentIsReply(db, parentId) == db[parentId].parentId # Null

\* no ownership check
AnyoneIsAuthor(db, commentId, clerkId) == TRUE

\* comment.user.clerkId === clerkId
IsAuthor(db, commentId, clerkId) == db[commentId].userId = clerkId

\* an update that sets both counters
IncrementBoth(db, commentId, vote) ==
  [db EXCEPT ![commentId].upvotes = @ + 1, ![commentId].downvotes = @ + 1]

\* update({ data: { upvotes: { increment: 1 } } }) or the same on downvotes:
\* one UPDATE statement that adds 1 to the stored value
Increment(db, commentId, vote) ==
  IF vote = "up"
  THEN [db EXCEPT ![commentId].upvotes = @ + 1]
  ELSE [db EXCEPT ![commentId].downvotes = @ + 1]

\* the handler of POST /api/policies/[id]/comments on request in, while the
\* store holds fewer than maxc rows and saw fewer than maxw writes
Post(in, maxc, maxw) ==
    LET clerkId == in[1]
        policyId == in[2]
        body == in[3]
        parentId == in[4]
    IN
    /\ req' = [op |-> "post", clerkId |-> clerkId, policyId |-> policyId,
               content |-> body, parentId |-> parentId]
    /\ chain' = <<>>
    /\ fetched' = <<>>
    /\ calls' = calls
    /\ UNCHANGED others
    /\ IF clerkId = NoUser
         THEN resp' = [status |-> 401] /\ comments' = comments
       ELSE IF Trim(body) = ""
         THEN resp' = [status |-> 400] /\ comments' = comments
       ELSE IF policyId \notin PolicyIds
         THEN resp' = [status |-> 404] /\ comments' = comments
       ELSE IF parentId # Null /\ ~FindParent(comments, parentId, policyId)
         THEN resp' = [status |-> 404] /\ comments' = comments
       ELSE IF parentId # Null /\ ParentIsReply(comments, parentId)
         THEN resp' = [status |-> 400] /\ comments' = comments
       ELSE
         /\ Len(comments) < maxc /\ Writes(comments) < maxw
         /\ comments' = Append(comments,
                          [policyId |-> policyId, userId |-> clerkId,
                           content |-> Trim(body), parentId |-> parentId,
                           deletedAt |-> Null, createdAt |-> Timestamp(comments),
                           upvotes |-> 0, downvotes |-> 0])
         /\ resp' = [status |-> 201, comment |-> Row(comments', Len(comments'))]

PostComment(maxc, maxw) == \E in \in PostInputs(comments) : Post(in, maxc, maxw)

PostAnyPolicy(maxc, maxw) ==
  \E in \in PostInputsAnyPolicy(comments) : Post(in, maxc, maxw)

\* POST /api/comments/[id]/vote, while fewer than maxv votes were cast
VoteComment(maxv, maxw) ==
  \E in \in VoteInputs(comments) :
    LET clerkId == in[1]
        commentId == in[2]
        vote == in[3]
    IN
    /\ req' = [op |-> "vote", clerkId |-> clerkId, commentId |-> commentId,
               vote |-> vote]
    /\ chain' = <<>>
    /\ fetched' = <<>>
    /\ calls' = calls
    /\ UNCHANGED others
    /\ IF clerkId = NoUser
         THEN resp' = [status |-> 401] /\ comments' = comments
       ELSE IF vote # "up" /\ vote # "down"
         THEN resp' = [status |-> 400] /\ comments' = comments
       ELSE IF ~FindLiveComment(comments, commentId)
         THEN resp' = [status |-> 404] /\ comments' = comments
       ELSE
         /\ TotalVotes(comments) < maxv /\ Writes(comments) < maxw
         /\ comments' = Increment(comments, commentId, vote)
         /\ resp' = [status |-> 200, upvotes |-> comments'[commentId].upvotes,
                     downvotes |-> comments'[commentId].downvotes]

\* DELETE /api/comments/[id]
DeleteComment(maxw) ==
  \E in \in DeleteInputs(comments) :
    LET clerkId == in[1]
        commentId == in[2]
    IN
    /\ req' = [op |-> "delete", clerkId |-> clerkId, commentId |-> commentId]
    /\ chain' = <<>>
    /\ fetched' = <<>>
    /\ calls' = calls
    /\ UNCHANGED others
    /\ IF clerkId = NoUser
         THEN resp' = [status |-> 401] /\ comments' = comments
       ELSE IF ~FindLiveComment(comments, commentId)
         THEN resp' = [status |-> 404] /\ comments' = comments
       ELSE IF ~IsAuthor(comments, commentId, clerkId)
         THEN resp' = [status |-> 403] /\ comments' = comments
       ELSE
         /\ Writes(comments) < maxw
         /\ comments' = [comments EXCEPT ![commentId].deletedAt = SomeDate]
         /\ resp' = [status |-> 200, deleted |-> TRUE]

\* the ids of the top-level comments of a response
PageIds(r) == ItemIds(r.comments)

\* GET /api/policies/[id]/comments with page size tk and candidate window
\* win.  `chain` collects the pages of a run of requests that starts without
\* cursor and continues with the nextCursor of the response before.
ListComments(tk, win) ==
  \E in \in ListInputs(comments) :
    LET policyId == in[1]
        sortParam == in[2]
        cursorParam == in[3]
    IN
    /\ req' = [op |-> "list", policyId |-> policyId, sort |-> sortParam,
               cursor |-> cursorParam]
    /\ \E run \in GET(comments, policyId, sortParam, cursorParam, tk, win) :
         resp' = run.resp /\ fetched' = run.fetched
    /\ chain' =
         IF resp'.status # 200 THEN <<>>
         ELSE IF cursorParam = Null THEN <<PageIds(resp')>>
         ELSE IF /\ chain # <<>> /\ Len(chain) < MaxPages
                 /\ req.policyId = policyId /\ req.sort = sortParam
                 /\ resp.hasMore /\ resp.nextCursor = cursorParam
           THEN Append(chain, PageIds(resp'))
         ELSE <<>>
    /\ UNCHANGED <<comments, calls>>
    /\ UNCHANGED others

Next ==
  \/ PostComment(MaxComments, MaxWrites)
  \/ VoteComment(MaxVotes, MaxWrites)
  \/ DeleteComment(MaxWrites)
  \/ ListComments(take, Window)

Spec == Init /\ [][Next]_vars

----------------------------------------------------------------------------
(* Further specifications of the same handlers *)

\* the scenario policy: A = 1, B = 2 with reply C = 3, soft-deleted D = 4
\* with reply E = 5 (D is written between B and E)
ScenarioRow(parentId, deletedAt, createdAt, upvotes, downvotes) ==
  [policyId |-> "p1", userId |-> "u1", content |-> "a", parentId |-> parentId,
   deletedAt |-> deletedAt, createdAt |-> createdAt,
   upvotes |-> upvotes, downvotes |-> downvotes]

Scenario ==
  <<ScenarioRow(Null, Null, 1, 5, 0), ScenarioRow(Null, Null, 2, 3, 3),
    ScenarioRow(2, Null, 3, 0, 0), ScenarioRow(Null, SomeDate, 3, 0, 0),
    ScenarioRow(4, Null, 4, 0, 0)>>

InitScenario ==
  /\ comments = Scenario
  /\ req = [op |-> "none"]
  /\ resp = [status |-> 0]
  /\ fetched = <<>>
  /\ chain = <<>>
  /\ calls = NoCalls
  /\ InitOthers

\* the handlers with the page size and the window of the source
NextScenario ==
  \/ PostComment(Len(Scenario) + ScenarioExtra, Writes(Scenario) + ScenarioExtra)
  \/ VoteComment(TotalVotes(Scenario) + ScenarioExtra, Writes(Scenario) + ScenarioExtra)
  \/ DeleteComment(Writes(Scenario) + ScenarioExtra)
  \/ ListComments(PageSize, CandidateWindow)

SpecScenario == InitScenario /\ [][NextScenario]_vars

\* three top-level comments with every combination of vote counts up to
\* MaxCount, the newest with a reply and either live or soft-deleted
RankStores ==
  {<<ScenarioRow(Null, Null, 1, v[1], v[2]), ScenarioRow(Null, Null, 2, v[3], v[4]),
     ScenarioRow(Null, d, 3, v[5], v[6]), ScenarioRow(3, Null, 4, 0, 0)>> :
     v \in [1..6 -> 0..MaxCount], d \in {Null, SomeDate}}

InitRank ==
  /\ comments \in RankStores
  /\ req = [op |-> "none"]
  /\ resp = [status |-> 0]
  /\ fetched = <<>>
  /\ chain = <<>>
  /\ calls = NoCalls
  /\ InitOthers

NextRank == ListComments(take, Window)

SpecRank == InitRank /\ [][NextRank]_vars

\* one thread: top-level comment 1, live or soft-deleted, with three replies,
\* each live or soft-deleted, and a later top-level comment; replies may
\* share a millisecond
Gaps == {0, 1}

ThreadStores ==
  {<<ScenarioRow(Null, d[1], 1, 0, 0), ScenarioRow(1, d[2], 2, 0, 0),
     ScenarioRow(1, d[3], 2 + g[1], 0, 0),
     ScenarioRow(1, d[4], 2 + g[1] + g[2], 0, 0),
     ScenarioRow(Null, Null, 3 + g[1] + g[2], 0, 0)>> :
     d \in [1..4 -> {Null, SomeDate}], g \in [1..2 -> Gaps]}

InitThreads ==
  /\ comments \in ThreadStores
  /\ req = [op |-> "none"]
  /\ resp = [status |-> 0]
  /\ fetched = <<>>
  /\ chain = <<>>
  /\ calls = NoCalls
  /\ InitOthers

NextThreads == ListComments(take, Window)

SpecThreads == InitThreads /\ [][NextThreads]_vars

\* the writes, with comments on every policy
NextWrites ==
  \/ PostAnyPolicy(MaxComments, MaxWrites)
  \/ VoteComment(WriteVotes, MaxWrites)
  \/ DeleteComment(MaxWrites)

SpecWrites == Init /\ [][NextWrites]_vars

----------------------------------------------------------------------------
(* The handlers query by query.  A call is idle, between two awaited       *)
(* queries (pc names the query it issues next, its locals are kept in the  *)
(* call) or done with its response.  Each query is one step.               *)

\* a thread: top-level comment T = 1 with reply R = 2
StepStore ==
  <<ScenarioRow(Null, Null, 1, 0, 0), ScenarioRow(1, Null, 2, 0, 0)>>

StepVoteInputs == {<<"u2", 1, "up">>, <<"u2", 1, "down">>}

StepDeleteInputs == {<<"u1", 1>>, <<"u1", 2>>}

StepListInputs == {<<ThePolicy, "newest", Null>>, <<ThePolicy, "popular", Null>>}

\* calls are taken in the order of the processes
Arrives(p) == calls[p].pc = "idle" /\ \A q \in 1..(p - 1) : calls[q].pc # "idle"

Done(op, in, r) == [pc |-> "done", op |-> op, in |-> in, resp |-> r]

\* new Date(): the clock does not run backwards
NewDate(db) ==
  {d \in {SomeDate, LaterDate} : \A i \in Ids(db) : db[i].deletedAt <= d}

\* vote: from the request to the answer of findFirst
VoteFind(p) ==
  \E in \in StepVoteInputs :
    LET clerkId == in[1]
        commentId == in[2]
        vote == in[3]
    IN
    /\ Arrives(p)
    /\ calls' = [calls EXCEPT ![p] =
         IF clerkId = NoUser THEN Done("vote", in, [status |-> 401])
         ELSE IF vote # "up" /\ vote # "down" THEN Done("vote", in, [status |-> 400])
         ELSE IF ~FindLiveComment(comments, commentId)
           THEN Done("vote", in, [status |-> 404])
         ELSE [pc |-> "update", op |-> "vote", in |-> in,
               comment |-> Row(comments, commentId)]]
    /\ UNCHANGED <<comments, req, resp, fetched, chain>>
    /\ UNCHANGED others

\* a write of the counter that was read by findFirst, plus 1
IncrementRead(db, comment, commentId, vote) ==
  IF vote = "up"
  THEN [db EXCEPT ![commentId].upvotes = comment.upvotes + 1]
  ELSE [db EXCEPT ![commentId].downvotes = comment.downvotes + 1]

\* the update of vote; `comment`, the row read by findFirst, is not used
IncrementStored(db, comment, commentId, vote) == Increment(db, commentId, vote)

\* vote: the update and the response
VoteUpdate(p) ==
  LET c == calls[p]
      commentId == c.in[2]
  IN
  /\ c.pc = "update" /\ c.op = "vote"
  /\ comments' = IncrementStored(comments, c.comment, commentId, c.in[3])
  /\ calls' = [calls EXCEPT ![p] =
       Done("vote", c.in, [status |-> 200, upvotes |-> comments'[commentId].upvotes,
                           downvotes |-> comments'[commentId].downvotes])]
  /\ UNCHANGED <<req, resp, fetched, chain>>
  /\ UNCHANGED others

\* DELETE: from the request to the ownership check
DeleteFind(p) ==
  \E in \in StepDeleteInputs :
    LET clerkId == in[1]
        commentId == in[2]
    IN
    /\ Arrives(p)
    /\ calls' = [calls EXCEPT ![p] =
         IF clerkId = NoUser THEN Done("delete", in, [status |-> 401])
         ELSE IF ~FindLiveComment(comments, commentId)
           THEN Done("delete", in, [status |-> 404])
         ELSE IF ~IsAuthor(comments, commentId, clerkId)
           THEN Done("delete", in, [status |-> 403])
         ELSE [pc |-> "update", op |-> "delete", in |-> in]]
    /\ UNCHANGED <<comments, req, resp, fetched, chain>>
    /\ UNCHANGED others

\* DELETE: update({ where: { id }, data: { deletedAt: new Date() } })
DeleteUpdate(p) ==
  LET c == calls[p]
  IN
  /\ c.pc = "update" /\ c.op = "delete"
  /\ \E d \in NewDate(comments) :
       comments' = [comments EXCEPT ![c.in[2]].deletedAt = d]
  /\ calls' = [calls EXCEPT ![p] = Done("delete", c.in, [status |-> 200, deleted |-> TRUE])]
  /\ UNCHANGED <<req, resp, fetched, chain>>
  /\ UNCHANGED others

\* GET: the policy lookup and the first findMany
ListFindLive(p) ==
  \E in \in StepListInputs :
    LET policyId == in[1]
        sort == SortOf(in[2])
        cursor == IF sort = "newest" THEN in[3] ELSE Null
        limit == IF Windowed(sort) THEN Window ELSE take + 1
    IN
    /\ Arrives(p)
    /\ IF policyId \notin PolicyIds
         THEN calls' = [calls EXCEPT ![p] = Done("list", in, [status |-> 404])]
         ELSE \E l \in FindLive(comments, policyId, cursor, limit) :
                calls' = [calls EXCEPT ![p] =
                            [pc |-> "deleted", op |-> "list", in |-> in, live |-> l]]
    /\ UNCHANGED <<comments, req, resp, fetched, chain>>
    /\ UNCHANGED others

\* GET: the second findMany
ListFindDeleted(p) ==
  LET c == calls[p]
  IN
  /\ c.pc = "deleted"
  /\ \E d \in FindDeletedWithReplies(comments, c.in[1]) :
       calls' = [calls EXCEPT ![p] =
                   [pc |-> "count", op |-> "list", in |-> c.in, live |-> c.live,
                    deletedWithReplies |-> d]]
  /\ UNCHANGED <<comments, req, resp, fetched, chain>>
  /\ UNCHANGED others

\* GET: deduplication, ranking, slice, count and the response
ListCount(p) ==
  LET c == calls[p]
  IN
  /\ c.pc = "count"
  /\ calls' = [calls EXCEPT ![p] =
       [pc |-> "done", op |-> "list", in |-> c.in, live |-> c.live,
        deletedWithReplies |-> c.deletedWithReplies,
        resp |-> Assemble(SortOf(c.in[2]), Dedup(c.live \o c.deletedWithReplies),
                          CountLive(comments, c.in[1]), take)]]
  /\ UNCHANGED <<comments, req, resp, fetched, chain>>
  /\ UNCHANGED others

InitSteps ==
  /\ comments = StepStore
  /\ req = [op |-> "none"]
  /\ resp = [status |-> 0]
  /\ fetched = <<>>
  /\ chain = <<>>
  /\ calls = NoCalls
  /\ InitOthers

NextSteps ==
  \E p \in Procs :
    \/ VoteFind(p)
    \/ VoteUpdate(p)
    \/ DeleteFind(p)
    \/ DeleteUpdate(p)
    \/ ListFindLive(p)
    \/ ListFindDeleted(p)
    \/ ListCount(p)

SpecSteps == InitSteps /\ [][NextSteps]_vars

\* the handlers with a page of SmallTake comments, on larger stores
NextPaging ==
  \/ PostComment(PagingComments, PagingWrites)
  \/ VoteComment(MaxVotes, PagingWrites)
  \/ DeleteComment(PagingWrites)
  \/ ListComments(SmallTake, SmallWindow)

SpecPaging == Init /\ [][NextPaging]_vars

----------------------------------------------------------------------------
(* Properties of List comments *)

IsList == req.op = "list" /\ resp.status = 200

ReqSort == SortOf(req.sort)

PageLen == Len(resp.comments)

Pos(s, x) == CHOOSE k \in 1..Len(s) : s[k] = x

Flatten(pages) ==
  LET F[k \in 0..Len(pages)] == IF k = 0 THEN <<>> ELSE F[k - 1] \o pages[k]
  IN F[Len(pages)]

NoDuplicates(s) == \A j, k \in 1..Len(s) : j # k => s[j] # s[k]

HasLiveReply(i) ==
  \E j \in Ids(comments) : comments[j].parentId = i /\ comments[j].deletedAt = Null

\* the top-level comments of the requested policy that belong in a listing
Listed ==
  {i \in Ids(comments) :
     /\ comments[i].policyId = req.policyId /\ comments[i].parentId = Null
     /\ (comments[i].deletedAt = Null \/ HasLiveReply(i))}

\* C1: with sort=newest the top-level comments of a page are in
\* non-increasing order of creation time, soft-deleted ones with live replies
\* included.
C1_NewestNonIncreasing ==
  (IsList /\ ReqSort = "newest") =>
    \A k \in 1..(PageLen - 1) :
      resp.comments[k].row.createdAt >= resp.comments[k + 1].row.createdAt

\* C2: on the scenario policy the first page is [D,B,A] for newest, [A,B,D]
\* for popular and [B,A,D] for controversial.
C2_ScenarioOrders ==
  (comments = Scenario /\ IsList /\ req.cursor = Null) =>
    /\ ReqSort = "newest" => PageIds(resp) = <<4, 2, 1>>
    /\ ReqSort = "popular" => PageIds(resp) = <<1, 2, 4>>
    /\ ReqSort = "controversial" => PageIds(resp) = <<2, 1, 4>>

\* C3: with sort=popular, whenever a precedes b in the response,
\* upvotes(a) - downvotes(a) >= upvotes(b) - downvotes(b), and comments of
\* equal score are in the order in which they were fetched.
C3_PopularOrder ==
  (IsList /\ ReqSort = "popular") =>
    \A j, k \in 1..PageLen : j < k =>
      LET a == resp.comments[j].row
          b == resp.comments[k].row
      IN /\ a.upvotes - a.downvotes >= b.upvotes - b.downvotes
         /\ a.upvotes - a.downvotes = b.upvotes - b.downvotes
              => Pos(fetched, a.id) < Pos(fetched, b.id)

\* a popular page that the sort reordered and that holds two comments of
\* equal score
C3_Witness ==
  /\ IsList /\ ReqSort = "popular"
  /\ PageIds(resp) # FirstN(fetched, PageLen)
  /\ \E j, k \in 1..PageLen :
       /\ j < k
       /\ popularScore(resp.comments[j].row) = popularScore(resp.comments[k].row)

\* C4: with sort=controversial, whenever a precedes b in the response,
\* score(a) >= score(b) for score(c) = (up + down) / (|up - down| + 1), which
\* is 0 for a comment without votes; compared by cross-multiplication.
C4_ControversialOrder ==
  (IsList /\ ReqSort = "controversial") =>
    \A j, k \in 1..PageLen : j < k =>
      LET a == resp.comments[j].row
          b == resp.comments[k].row
      IN (a.upvotes + a.downvotes) * (Abs(b.upvotes - b.downvotes) + 1)
           >= (b.upvotes + b.downvotes) * (Abs(a.upvotes - a.downvotes) + 1)

\* a controversial page that the sort reordered, with a comment without
\* votes and one whose votes are evenly split
C4_Witness ==
  /\ IsList /\ ReqSort = "controversial"
  /\ PageIds(resp) # FirstN(fetched, PageLen)
  /\ \E j, k \in 1..PageLen :
       /\ resp.comments[j].row.upvotes = resp.comments[j].row.downvotes
       /\ resp.comments[j].row.upvotes > 0
       /\ resp.comments[k].row.upvotes + resp.comments[k].row.downvotes = 0

\* C5: no response, in any sort mode and on any page, contains a soft-deleted
\* top-level comment that has no non-deleted reply.
C5_NoDeletedWithoutLiveReply ==
  IsList =>
    \A k \in 1..PageLen :
      LET i == resp.comments[k].row.id
      IN comments[i].deletedAt # Null => HasLiveReply(i)

\* a listing of a policy that has a soft-deleted top-level comment whose only
\* reply is soft-deleted too
C5_Witness ==
  /\ IsList
  /\ \E i, j \in Ids(comments) :
       /\ comments[i].policyId = req.policyId /\ comments[i].parentId = Null
       /\ comments[i].deletedAt # Null /\ ~HasLiveReply(i)
       /\ comments[j].parentId = i

\* C6: in every sort mode a soft-deleted top-level comment with a
\* non-deleted reply is on the first page or on a page reached by following
\* hasMore/nextCursor, with all its non-deleted replies: once the run of pages
\* has ended, or the next request would repeat this one, it has been listed.
C6_DeletedRootWithLiveReplyListed ==
  (IsList /\ chain # <<>> /\ (~resp.hasMore \/ resp.nextCursor = req.cursor)) =>
    \A i \in Listed :
      comments[i].deletedAt # Null => i \in Range(Flatten(chain))

\* C7: the response carries no information about the content of a
\* soft-deleted comment: the store that differs only in that content can
\* give the same response.
C7_DeletedContentHidden ==
  IsList =>
    \A i \in Ids(comments) : \A ct \in Contents :
      comments[i].deletedAt # Null =>
        resp \in {run.resp : run \in GET([comments EXCEPT ![i].content = ct],
                                        req.policyId, req.sort, req.cursor,
                                        take, Window)}

\* C8: in every response and every sort mode, the replies of a top-level
\* comment are non-deleted replies to it, oldest first.
C8_RepliesLiveOldestFirst ==
  IsList =>
    \A k \in 1..PageLen :
      LET it == resp.comments[k]
      IN /\ \A m \in 1..Len(it.replies) :
              /\ it.replies[m].deletedAt = Null
              /\ comments[it.replies[m].id].deletedAt = Null
              /\ comments[it.replies[m].id].parentId = it.row.id
         /\ \A m \in 1..(Len(it.replies) - 1) :
              it.replies[m].createdAt <= it.replies[m + 1].createdAt

\* a response with a top-level comment that has two replies listed and a
\* soft-deleted reply
C8_Witness ==
  /\ IsList
  /\ \E k \in 1..PageLen :
       /\ Len(resp.comments[k].replies) >= 2
       /\ \E j \in Ids(comments) :
            /\ comments[j].parentId = resp.comments[k].row.id
            /\ comments[j].deletedAt # Null

\* the non-deleted comments of a policy, counted row by row
NumLive(db, policyId) ==
  LET F[k \in 0..Len(db)] ==
        IF k = 0 THEN 0
        ELSE F[k - 1] + (IF db[k].policyId = policyId /\ db[k].deletedAt = Null
                         THEN 1 ELSE 0)
  IN F[Len(db)]

\* C9: totalCount is the number of non-deleted comments (top-level and
\* replies) of the policy, whatever the sort mode and the cursor.
C9_TotalCountExact ==
  IsList =>
    /\ resp.totalCount = NumLive(comments, req.policyId)
    /\ \A in \in ListInputs(comments) :
         in[1] = req.policyId =>
           \A run \in GET(comments, in[1], in[2], in[3], take, Window) :
             run.resp.totalCount = resp.totalCount

\* a page after a cursor, of a policy with a live reply and soft-deleted
\* comments, that lists fewer top-level comments than totalCount
C9_Witness ==
  /\ IsList /\ req.cursor # Null
  /\ resp.totalCount > PageLen /\ PageLen > 0
  /\ \E i, j \in Ids(comments) :
       /\ comments[i].deletedAt # Null
       /\ comments[j].deletedAt = Null /\ comments[j].parentId # Null

\* C10: with sort=newest and no write in between, the pages of a run of
\* requests that each resume at the nextCursor of the response before hold no
\* top-level comment twice and, when the run ends, every top-level comment that
\* belongs in the listing.
C10_NewestPagesPartition ==
  (IsList /\ ReqSort = "newest" /\ chain # <<>>) =>
    /\ NoDuplicates(Flatten(chain))
    /\ ~resp.hasMore => Listed \subseteq Range(Flatten(chain))

\* C11: a continuation token is given in newest mode only: with sort=popular
\* or sort=controversial the nextCursor of the response is null, also when
\* hasMore is true.
C11_NextCursorNewestOnly ==
  (IsList /\ Windowed(ReqSort)) => resp.nextCursor = Null

\* C12: a response holds at most `take` top-level comments (20 in the
\* handler), in every sort mode, for every store and every cursor.
C12_AtMostTakePerPage ==
  IsList => PageLen <= take

\* a full page after a cursor, cut from more candidates than fit
C12_Witness ==
  /\ IsList /\ PageLen = take /\ Len(fetched) > take /\ resp.hasMore
  /\ req.cursor # Null

\* the top-level comments of a policy, soft-deleted or not, that have fewer
\* than n live top-level comments created after them: the reading of "the n
\* most recent" that admits the most comments
MostRecent(db, policyId, n) ==
  LET top == {i \in Ids(db) : db[i].policyId = policyId /\ db[i].parentId = Null}
  IN {i \in top :
        Cardinality({j \in top : /\ db[j].deletedAt = Null
                                  /\ db[j].createdAt > db[i].createdAt}) < n}

\* C18: with sort=popular or sort=controversial only the most recently
\* created top-level comments of the policy, as many as the candidate window
\* holds (200 in the handler), appear in the response, whatever their votes
\* and whether or not they are soft-deleted.
C18_OnlyWindowRanked ==
  (IsList /\ Windowed(ReqSort)) =>
    \A k \in 1..PageLen :
      resp.comments[k].row.id \in MostRecent(comments, req.policyId, SmallWindow)

----------------------------------------------------------------------------
(* Properties of the writes *)

\* every reply has a top-level parent of the same policy
DepthAtMostTwo(db) ==
  \A i \in Ids(db) :
    db[i].parentId # Null =>
      /\ db[i].parentId \in Ids(db)
      /\ db[db[i].parentId].parentId = Null
      /\ db[db[i].parentId].policyId = db[i].policyId

\* C13: after every sequence of create, vote and delete requests each comment
\* with a parent has a parent without parent, of the same policy; a create
\* request whose parentId names a reply is rejected and creates nothing.
C13_NestingDepth ==
  [][/\ DepthAtMostTwo(comments')
     /\ (/\ req'.op = "post"
         /\ req'.parentId \in Ids(comments)
         /\ comments[req'.parentId].parentId # Null)
        => (resp'.status \in {400, 401, 404} /\ comments' = comments)]_vars

\* a create request that names a reply as parent was answered 400, on a
\* store with comments of two policies
C13_Witness ==
  /\ req.op = "post" /\ resp.status = 400
  /\ req.parentId \in Ids(comments)
  /\ comments[req.parentId].parentId # Null
  /\ \E i, j \in Ids(comments) : comments[i].policyId # comments[j].policyId

\* C14: once the deletedAt of a comment is set no request clears or changes
\* it, a repeated or concurrent DELETE included, and no request removes a
\* row or changes the content of a comment.
C14_SoftDeleteIrreversible ==
  [][/\ Len(comments') >= Len(comments)
     /\ \A i \in Ids(comments) :
          /\ comments'[i].content = comments[i].content
          /\ comments[i].deletedAt # Null
               => comments'[i].deletedAt = comments[i].deletedAt]_vars

\* C15: a successful vote adds exactly 1 to the chosen counter of the target
\* comment, leaves its other counter, its other fields and every other
\* comment unchanged and returns the updated pair; votes of one user are not
\* deduplicated, and no request lowers a counter.
C15_VoteIncrementsByOne ==
  [][/\ \A i \in Ids(comments) :
          /\ comments'[i].upvotes >= comments[i].upvotes
          /\ comments'[i].downvotes >= comments[i].downvotes
     /\ (req'.op = "vote" /\ resp'.status = 200) =>
          LET i == req'.commentId
              up == IF req'.vote = "up" THEN 1 ELSE 0
          IN /\ Len(comments') = Len(comments)
             /\ comments'[i].upvotes = comments[i].upvotes + up
             /\ comments'[i].downvotes = comments[i].downvotes + (1 - up)
             /\ \A j \in Ids(comments) :
                  /\ j # i => comments'[j] = comments[j]
                  /\ comments'[j].content = comments[j].content
                  /\ comments'[j].deletedAt = comments[j].deletedAt
                  /\ comments'[j].createdAt = comments[j].createdAt
                  /\ comments'[j].userId = comments[j].userId
                  /\ comments'[j].policyId = comments[j].policyId
                  /\ comments'[j].parentId = comments[j].parentId
             /\ resp'.upvotes = comments'[i].upvotes
             /\ resp'.downvotes = comments'[i].downvotes]_vars

\* the second successful vote of the same user on a comment, among other
\* comments
C15_Witness ==
  /\ req.op = "vote" /\ resp.status = 200
  /\ resp.upvotes = 2
  /\ Len(comments) > 1

\* C16: a List comments request whose sort parameter is none of newest,
\* popular, controversial is answered with an error, not with a comment list.
C16_InvalidSortRejected ==
  (/\ req.op = "list" /\ req.policyId \in PolicyIds
   /\ req.sort \notin {"", "newest", "popular", "controversial"})
    => resp.status # 200

\* the requests that are to be refused on store db: no signed-in user, a vote
\* that is neither up nor down, a vote or delete on a missing or soft-deleted
\* comment, a create on a missing policy or with a missing or soft-deleted
\* parent, a delete by another user than the author
Refused(r, db) ==
  \/ r.clerkId = NoUser
  \/ r.op = "vote" /\ r.vote \notin {"up", "down"}
  \/ /\ r.op \in {"vote", "delete"}
     /\ (r.commentId \notin Ids(db) \/ db[r.commentId].deletedAt # Null)
  \/ r.op = "post" /\ r.policyId \notin PolicyIds
  \/ /\ r.op = "post" /\ r.parentId # Null
     /\ (r.parentId \notin Ids(db) \/ db[r.parentId].deletedAt # Null)
  \/ /\ r.op = "delete" /\ r.commentId \in Ids(db)
     /\ db[r.commentId].userId # r.clerkId

\* C17: every rejected write leaves the comment store unchanged, and each
\* request that is to be refused is answered 400, 401, 403 or 404.
C17_RejectedWritesChangeNothing ==
  [][(req'.op \in {"post", "vote", "delete"}) =>
       /\ Refused(req', comments) => resp'.status \in {400, 401, 403, 404}
       /\ resp'.status \in {400, 401, 403, 404} => comments' = comments]_vars

\* a delete by a user who is not the author was answered 403, on a store
\* with a vote and a soft-deleted comment
C17_Witness ==
  /\ req.op = "delete" /\ resp.status = 403
  /\ TotalVotes(comments) > 0 /\ NumDeleted(comments) > 0

----------------------------------------------------------------------------
(* Properties of requests in flight at the same time *)

ListDone(p) ==
  calls[p].pc = "done" /\ calls[p].op = "list" /\ calls[p].resp.status = 200

\* C19: no identifier occurs twice among the top-level comments of one
\* response, also when a DELETE of a top-level comment with live replies
\* commits between the two queries of the request; the comment kept is the
\* first occurrence in the concatenation of the two query results.
C19_NoDuplicateIds ==
  \A p \in Procs :
    ListDone(p) =>
      LET all == calls[p].live \o calls[p].deletedWithReplies
          page == calls[p].resp.comments
      IN /\ NoDuplicates(ItemIds(page))
         /\ \A k \in 1..Len(page) :
              \E m \in 1..Len(all) :
                /\ all[m] = page[k]
                /\ \A n \in 1..(m - 1) : all[n].row.id # page[k].row.id

\* a response to a request whose two queries both returned the same comment
C19_Witness ==
  \E p \in Procs :
    /\ ListDone(p)
    /\ \E m \in 1..Len(calls[p].live) :
         \E n \in 1..Len(calls[p].deletedWithReplies) :
           calls[p].live[m].row.id = calls[p].deletedWithReplies[n].row.id

\* the votes of direction v on comment i that were answered 200
VotesDone(cs, i, v) ==
  {p \in Procs : /\ cs[p].pc = "done" /\ cs[p].op = "vote"
                 /\ cs[p].resp.status = 200
                 /\ cs[p].in[2] = i /\ cs[p].in[3] = v}

\* C20: vote increments are atomic: however the requests interleave, each
\* counter of a comment is its initial value plus the number of successful
\* votes for it (no lost update), and no step of a List comments request
\* writes to a comment.
C20_AtomicVotes ==
  [][/\ \A i \in Ids(comments') :
          /\ comments'[i].upvotes
               = StepStore[i].upvotes + Cardinality(VotesDone(calls', i, "up"))
          /\ comments'[i].downvotes
               = StepStore[i].downvotes + Cardinality(VotesDone(calls', i, "down"))
     /\ \A p \in Procs :
          (calls'[p] # calls[p] /\ calls'[p].op = "list") => comments' = comments]_vars

\* two successful votes of the same direction on one comment
C20_Witness ==
  \E p, q \in Procs :
    /\ p # q
    /\ p \in VotesDone(calls, 1, "up") /\ q \in VotesDone(calls, 1, "up")
    /\ comments[1].upvotes = 2

----------------------------------------------------------------------------
(* POST /api/policies/analyze: the in-memory limiter.  isRateLimited has no *)
(* await, so a request passes it in one step; `now` is Date.now().          *)

\* the entries of x-forwarded-for; none when the header is absent
Headers == {<<>>, <<"10.0.0.1">>, <<"10.0.0.1", "10.0.0.9">>}

ClientIp(header) == IF header = <<>> THEN "unknown" ELSE Head(header)

\* the body of a request: no content, content too short, content long enough
Bodies == {"none", "short", "long"}

Recent(timestamps, t) == SelectSeq(timestamps, LAMBDA x : t - x < RateWindow)

RecordedAlways(recent, t, limited) == Append(recent, t)

Recorded(recent, t, limited) == IF limited THEN recent ELSE Append(recent, t)

isRateLimited(map, ip, t) ==
  LET recent == Recent(map[ip], t)
      limited == Len(recent) >= RateMax
  IN [limited |-> limited,
      map |-> [map EXCEPT ![ip] = Recorded(recent, t, limited)]]

Analyze ==
  \E header \in Headers, body \in Bodies :
    LET ip == ClientIp(header)
        r == isRateLimited(rateLimitMap, ip, now)
    IN
    /\ req' = [op |-> "analyze", ip |-> ip, at |-> now, body |-> body]
    /\ rateLimitMap' = r.map
    /\ IF r.limited
         THEN resp' = [status |-> 429] /\ admitted' = admitted
       ELSE
         /\ admitted' = [admitted EXCEPT ![ip] = Append(@, now)]
         /\ IF body # "long" THEN resp' = [status |-> 400]
            ELSE \E status \in {200, 500} : resp' = [status |-> status]
    /\ now' = now
    /\ calls' = calls
    /\ UNCHANGED notLimiter

\* time passes between requests
Tick ==
  /\ now < MaxTime
  /\ now' = now + 1
  /\ UNCHANGED <<rateLimitMap, admitted, req, resp, calls>>
  /\ UNCHANGED notLimiter

NextAnalyze == Analyze \/ Tick

SpecAnalyze == Init /\ [][NextAnalyze]_vars

\* the requests of ip admitted in the window that ends at t
AdmittedIn(log, t) == Cardinality({k \in 1..Len(log) : t - log[k] < RateWindow /\ log[k] <= t})

IsAnalyze == req.op = "analyze"

\* a step that answers a request to the analyze route
Analyzed == IsAnalyze' /\ now' = now

----------------------------------------------------------------------------
(* Organizations, their members and access requests.                       *)
(*                                                                         *)
(*   POST   /api/organizations                        CreateOrganization   *)
(*   POST   /api/organizations/[id]/members           RequestAccess        *)
(*   PATCH  /api/organizations/[id]/access-requests   ReviewRequest        *)
(*   DELETE /api/organizations/[id]/members           RemoveMember         *)
(*                                                                         *)
(* The id of an organization is its number in the order of creation, the   *)
(* id of an access request its index in `accessRequest` (no route deletes  *)
(* either); a user row is identified with its clerkId.                     *)

OrgIds(maxo) == 1..maxo

Membership(members, userId, orgId) ==
  {m \in members : m.userId = userId /\ m.organizationId = orgId}

\* the rows created so far in the tables that only grow
OrgRows == Cardinality(organization) + Len(accessRequest)

IsAdmin(members, userId, orgId) ==
  \E m \in Membership(members, userId, orgId) : m.role = "admin"

AdminCount(members, orgId) ==
  Cardinality({m \in members : m.organizationId = orgId /\ m.role = "admin"})

RequestOf(requests, userId, orgId) ==
  {k \in Ids(requests) :
     requests[k].userId = userId /\ requests[k].organizationId = orgId}

CreateInputs == (Users \cup {NoUser}) \X {"", "name"}

CreateOrganization(maxo, maxr) ==
  \E in \in CreateInputs :
    LET clerkId == in[1]
        name == in[2]
        id == Cardinality(organization) + 1
    IN
    /\ req' = [op |-> "createOrganization", clerkId |-> clerkId, name |-> name]
    /\ IF clerkId = NoUser
         THEN resp' = [status |-> 401] /\ UNCHANGED orgState
       ELSE IF name = ""
         THEN resp' = [status |-> 400] /\ UNCHANGED orgState
       ELSE
         /\ Cardinality(organization) < maxo /\ OrgRows < maxr
         /\ user' = user \cup {clerkId}
         /\ organization' = organization \cup {[id |-> id, parentId |-> Null]}
         /\ organizationMember' = organizationMember \cup
              {[userId |-> clerkId, organizationId |-> id, role |-> "admin"]}
         /\ accessRequest' = accessRequest
         /\ resp' = [status |-> 201, organization |-> id]
    /\ calls' = calls
    /\ UNCHANGED notOrgs

RequestInputs(maxo) == (Users \cup {NoUser}) \X OrgIds(maxo)

RequestAccess(maxo, maxr) ==
  \E in \in RequestInputs(maxo) :
    LET clerkId == in[1]
        orgId == in[2]
        existingRequest == RequestOf(accessRequest, clerkId, orgId)
    IN
    /\ req' = [op |-> "requestAccess", clerkId |-> clerkId, orgId |-> orgId]
    /\ IF clerkId = NoUser
         THEN resp' = [status |-> 401] /\ UNCHANGED orgState
       ELSE IF \A o \in organization : o.id # orgId
         THEN resp' = [status |-> 404] /\ UNCHANGED orgState
       ELSE
         /\ user' = user \cup {clerkId}
         /\ UNCHANGED <<organization, organizationMember>>
         /\ IF Membership(organizationMember, clerkId, orgId) # {}
              THEN resp' = [status |-> 400] /\ accessRequest' = accessRequest
            ELSE IF existingRequest # {}
              THEN LET k == CHOOSE k \in existingRequest : TRUE IN
                   IF accessRequest[k].status = "pending"
                     THEN resp' = [status |-> 400] /\ accessRequest' = accessRequest
                   ELSE
                     /\ accessRequest' = [accessRequest EXCEPT ![k].status = "pending"]
                     /\ resp' = [status |-> 202, request |-> k]
            ELSE
              /\ OrgRows < maxr
              /\ accessRequest' = Append(accessRequest,
                   [userId |-> clerkId, organizationId |-> orgId, status |-> "pending"])
              /\ resp' = [status |-> 202, request |-> Len(accessRequest) + 1]
    /\ calls' = calls
    /\ UNCHANGED notOrgs

\* requestId Null: no requestId in the body; Len + 1: no such request
ReviewInputs(maxo) ==
  (Users \cup {NoUser}) \X OrgIds(maxo) \X (0..(Len(accessRequest) + 1))
    \X {"approve", "deny", "revoke"}

AnyOrganization(request, orgId) == TRUE

OfOrganization(request, orgId) == request.organizationId = orgId

\* PATCH up to the answer of accessRequest.findUnique: the status of an
\* early return, or 0 when the request goes on to its write
ReviewCheck(users, members, requests, in) ==
  LET clerkId == in[1]
      orgId == in[2]
      requestId == in[3]
      action == in[4]
  IN
  IF clerkId = NoUser THEN 401
  ELSE IF clerkId \notin users THEN 404
  ELSE IF ~IsAdmin(members, clerkId, orgId) THEN 403
  ELSE IF requestId = Null \/ action \notin {"approve", "deny"} THEN 400
  ELSE IF requestId \notin Ids(requests) THEN 404
  ELSE IF ~OfOrganization(requests[requestId], orgId) THEN 404
  ELSE IF requests[requestId].status # "pending" THEN 400
  ELSE 0

\* the write of PATCH for the access request it has read: approve is one
\* transaction, which is rolled back when the membership exists already
\* (unique userId_organizationId)
ReviewWrite(members, requests, in, accessRequestRead) ==
  LET orgId == in[2]
      requestId == in[3]
      action == in[4]
  IN
  IF action = "approve"
    THEN IF Membership(members, accessRequestRead.userId, orgId) # {}
           THEN [status |-> 500, members |-> members, requests |-> requests]
         ELSE [status |-> 200,
               members |-> members \cup
                 {[userId |-> accessRequestRead.userId, organizationId |-> orgId,
                   role |-> "member"]},
               requests |-> [requests EXCEPT ![requestId].status = "approved"]]
  ELSE [status |-> 200, members |-> members,
        requests |-> [requests EXCEPT ![requestId].status = "denied"]]

ReviewRequest(maxo) ==
  \E in \in ReviewInputs(maxo) :
    LET status == ReviewCheck(user, organizationMember, accessRequest, in)
        w == ReviewWrite(organizationMember, accessRequest, in, accessRequest[in[3]])
    IN
    /\ req' = [op |-> "review", clerkId |-> in[1], orgId |-> in[2],
               requestId |-> in[3], action |-> in[4]]
    /\ IF status # 0
         THEN resp' = [status |-> status] /\ UNCHANGED orgState
       ELSE
         /\ organizationMember' = w.members
         /\ accessRequest' = w.requests
         /\ resp' = [status |-> w.status]
         /\ UNCHANGED <<user, organization>>
    /\ calls' = calls
    /\ UNCHANGED notOrgs

\* userId "": the query parameter is absent
RemoveInputs(maxo) ==
  (Users \cup {NoUser}) \X OrgIds(maxo) \X (Users \cup {""})

NeverLastAdmin(adminCount) == FALSE

LastAdmin(adminCount) == adminCount <= 1

TargetUser(clerkId, removeUserId) ==
  IF removeUserId # "" /\ removeUserId # clerkId THEN removeUserId ELSE clerkId

\* DELETE up to the answer of the membership findUnique: the status of an
\* early return, or 0
RemoveCheck(users, members, in) ==
  LET clerkId == in[1]
      orgId == in[2]
      removeUserId == in[3]
  IN
  IF clerkId = NoUser THEN 401
  ELSE IF clerkId \notin users THEN 404
  ELSE IF /\ TargetUser(clerkId, removeUserId) # clerkId
          /\ ~IsAdmin(members, clerkId, orgId) THEN 403
  ELSE IF Membership(members, TargetUser(clerkId, removeUserId), orgId) = {} THEN 404
  ELSE 0

RemoveMember(maxo) ==
  \E in \in RemoveInputs(maxo) :
    LET status == RemoveCheck(user, organizationMember, in)
        found == Membership(organizationMember, TargetUser(in[1], in[3]), in[2])
    IN
    /\ req' = [op |-> "removeMember", clerkId |-> in[1], orgId |-> in[2],
               userId |-> in[3]]
    /\ IF status # 0
         THEN resp' = [status |-> status] /\ UNCHANGED orgState
       ELSE LET membership == CHOOSE m \in found : TRUE IN
         IF /\ membership.role = "admin"
            /\ LastAdmin(AdminCount(organizationMember, in[2]))
           THEN resp' = [status |-> 400] /\ UNCHANGED orgState
         ELSE
           /\ organizationMember' = organizationMember \ {membership}
           /\ resp' = [status |-> 200, removed |-> TRUE]
           /\ UNCHANGED <<user, organization, accessRequest>>
    /\ calls' = calls
    /\ UNCHANGED notOrgs

NextOrgs ==
  \/ CreateOrganization(MaxOrgs, MaxOrgRows)
  \/ RequestAccess(MaxOrgs, MaxOrgRows)
  \/ ReviewRequest(MaxOrgs)
  \/ RemoveMember(MaxOrgs)

SpecOrgs == Init /\ [][NextOrgs]_vars

----------------------------------------------------------------------------
(* Properties of the organization routes *)

ValidReview(r) == r.requestId # Null /\ r.action \in {"approve", "deny"}

\* C23: a PATCH is answered 403 to a user who is not an admin of the
\* addressed organization, 404 for a request of another organization and
\* 400 for a request that is approved or denied already; a PATCH answered
\* 403, 404 or 400 changes neither a request nor a membership; and a PATCH
\* that succeeds was sent by an admin of the organization for a pending
\* request of that organization.
C23_ReviewGuards ==
  [][req'.op = "review" =>
       LET r == req'
           admin == IsAdmin(organizationMember, r.clerkId, r.orgId)
           known == r.requestId \in Ids(accessRequest)
       IN
       /\ (r.clerkId \in user /\ ~admin) => resp'.status = 403
       /\ (admin /\ ValidReview(r) /\ known) =>
            /\ accessRequest[r.requestId].organizationId # r.orgId
                 => resp'.status = 404
            /\ (/\ accessRequest[r.requestId].organizationId = r.orgId
                /\ accessRequest[r.requestId].status \in {"approved", "denied"})
                 => resp'.status = 400
       /\ resp'.status \in {403, 404, 400} =>
            /\ accessRequest' = accessRequest
            /\ organizationMember' = organizationMember
       /\ resp'.status = 200 =>
            /\ admin /\ known
            /\ accessRequest[r.requestId].organizationId = r.orgId
            /\ accessRequest[r.requestId].status = "pending"]_vars

\* the admin of one organization is refused the pending request of another
C23_Witness ==
  /\ req.op = "review" /\ resp.status = 404
  /\ IsAdmin(organizationMember, req.clerkId, req.orgId)
  /\ ValidReview(req)
  /\ req.requestId \in Ids(accessRequest)
  /\ accessRequest[req.requestId].organizationId # req.orgId
  /\ accessRequest[req.requestId].status = "pending"

----------------------------------------------------------------------------
(* PATCH access-requests and DELETE members query by query.  The checks of *)
(* the requester (user row, admin membership) are taken together with the  *)
(* query that follows them.  POST organizations writes the organization    *)
(* and its admin in one nested create, approve writes in one transaction.  *)

\* a call that has answered
OrgDone(op, r) == [pc |-> "done", op |-> op, resp |-> r]

StepReviewInputs(maxo) ==
  Users \X OrgIds(maxo) \X Ids(accessRequest) \X {"approve", "deny"}

\* PATCH: from the request to the answer of accessRequest.findUnique
PatchFind(p, maxo) ==
  \E in \in StepReviewInputs(maxo) :
    LET status == ReviewCheck(user, organizationMember, accessRequest, in) IN
    /\ Arrives(p)
    /\ calls' = [calls EXCEPT ![p] =
         IF status # 0 THEN OrgDone("review", [status |-> status])
         ELSE [pc |-> "write", op |-> "review", in |-> in,
               accessRequest |-> accessRequest[in[3]]]]
    /\ UNCHANGED <<req, resp>>
    /\ UNCHANGED orgState
    /\ UNCHANGED notOrgs

\* PATCH: the transaction of approve, or the update of deny
PatchWrite(p) ==
  /\ calls[p].pc = "write" /\ calls[p].op = "review"
  /\ LET w == ReviewWrite(organizationMember, accessRequest, calls[p].in,
                          calls[p].accessRequest)
     IN
     /\ organizationMember' = w.members
     /\ accessRequest' = w.requests
     /\ calls' = [calls EXCEPT ![p] =
          OrgDone("review", [status |-> w.status])]
  /\ UNCHANGED <<req, resp, user, organization>>
  /\ UNCHANGED notOrgs

StepRemoveInputs(maxo) == Users \X OrgIds(maxo) \X (Users \cup {""})

\* DELETE: from the request to the answer of the membership findUnique
RemoveFind(p, maxo) ==
  \E in \in StepRemoveInputs(maxo) :
    LET status == RemoveCheck(user, organizationMember, in)
        found == Membership(organizationMember, TargetUser(in[1], in[3]), in[2])
    IN
    /\ Arrives(p)
    /\ calls' = [calls EXCEPT ![p] =
         IF status # 0 THEN OrgDone("removeMember", [status |-> status])
         ELSE LET membership == CHOOSE m \in found : TRUE IN
              [pc |-> IF membership.role = "admin" THEN "count" ELSE "delete",
               op |-> "removeMember", in |-> in, membership |-> membership]]
    /\ UNCHANGED <<req, resp>>
    /\ UNCHANGED orgState
    /\ UNCHANGED notOrgs

\* DELETE: organizationMember.count of the admins
RemoveCount(p) ==
  /\ calls[p].pc = "count" /\ calls[p].op = "removeMember"
  /\ calls' = [calls EXCEPT ![p] =
       IF LastAdmin(AdminCount(organizationMember, calls[p].in[2]))
         THEN OrgDone("removeMember", [status |-> 400])
       ELSE [calls[p] EXCEPT !.pc = "delete"]]
  /\ UNCHANGED <<req, resp>>
  /\ UNCHANGED orgState
  /\ UNCHANGED notOrgs

\* DELETE: organizationMember.delete, which throws when the row is gone
RemoveDelete(p) ==
  /\ calls[p].pc = "delete" /\ calls[p].op = "removeMember"
  /\ IF calls[p].membership \in organizationMember
       THEN
         /\ organizationMember' = organizationMember \ {calls[p].membership}
         /\ calls' = [calls EXCEPT ![p] =
              OrgDone("removeMember", [status |-> 200])]
     ELSE
       /\ organizationMember' = organizationMember
       /\ calls' = [calls EXCEPT ![p] =
            OrgDone("removeMember", [status |-> 500])]
  /\ UNCHANGED <<req, resp, user, organization, accessRequest>>
  /\ UNCHANGED notOrgs

NextOrgSteps ==
  \/ CreateOrganization(StepOrgs, StepOrgRows)
  \/ RequestAccess(StepOrgs, StepOrgRows)
  \/ \E p \in Procs :
       \/ PatchFind(p, StepOrgs)
       \/ PatchWrite(p)
       \/ RemoveFind(p, StepOrgs)
       \/ RemoveCount(p)
       \/ RemoveDelete(p)

SpecOrgSteps == Init /\ [][NextOrgSteps]_vars

\* C22: every organization has a member with role admin, whichever way
\* create-organization, request-access, approve, deny and the queries of
\* member DELETE requests interleave.
C22_AdminRemains ==
  \A o \in organization : AdminCount(organizationMember, o.id) >= 1

\* the admin asks to leave, or to be removed, and is refused
C22_Witness ==
  \E p \in Procs :
    /\ calls[p].pc = "done" /\ calls[p].op = "removeMember"
    /\ calls[p].resp.status = 400
    /\ \E o \in organization : AdminCount(organizationMember, o.id) = 1

\* C30: a membership with role member exists only with an approved access
\* request of its user for its organization, and no pending or denied
\* request has a membership of its user in its organization next to it.
C30_MembershipFollowsRequest ==
  /\ \A m \in organizationMember :
       m.role = "member" =>
         \E k \in RequestOf(accessRequest, m.userId, m.organizationId) :
           accessRequest[k].status = "approved"
  /\ \A k \in Ids(accessRequest) :
       accessRequest[k].status \in {"pending", "denied"} =>
         Membership(organizationMember, accessRequest[k].userId,
                    accessRequest[k].organizationId) = {}

----------------------------------------------------------------------------
(* Endorsements of a policy.                                               *)
(*                                                                         *)
(*   POST   /api/policies/[id]/endorse        Endorse                      *)
(*   DELETE /api/policies/[id]/endorse        Unendorse                    *)
(*   GET    /api/policies/[id]/endorse        ListEndorsements             *)
(*   POST   /api/organizations/[id]/endorse   EndorseAsOrganization        *)
(*                                                                         *)
(* An endorsement of a person has organizationId Null, an endorsement of   *)
(* an organization has no user.                                             *)

NullUser == ""

PolicyFound(rows, policyId) ==
  \E r \in rows : r.id = policyId /\ r.deletedAt = Null

PolicyPublished(rows, policyId) ==
  \E r \in rows : r.id = policyId /\ r.deletedAt = Null /\ r.published

\* endorsement.count({ where: { policyId } })
EndorsementCount(rows, policyId) ==
  Cardinality({e \in rows : e.policyId = policyId})

Personal(rows, userId, policyId) ==
  {e \in rows : e.userId = userId /\ e.policyId = policyId /\ e.organizationId = Null}

EndorseInputs == (Users \cup {NoUser}) \X (PolicyIds \cup {DraftPolicy, UnknownPolicy})

\* $transaction([create, count]): the statements run one after the other in
\* one transaction, so count sees the row that create has inserted
CountAfterCreate(rows, row, policyId) == EndorsementCount(rows \cup {row}, policyId)

CountAfterDelete(rows, row, policyId) == EndorsementCount(rows \ {row}, policyId)

Endorse ==
  \E in \in EndorseInputs :
    LET clerkId == in[1]
        policyId == in[2]
        row == [userId |-> clerkId, policyId |-> policyId, organizationId |-> Null]
        count == CountAfterCreate(endorsement, row, policyId)
    IN
    /\ req' = [op |-> "endorse", clerkId |-> clerkId, policyId |-> policyId]
    /\ IF clerkId = NoUser
         THEN resp' = [status |-> 401] /\ UNCHANGED <<user, endorsement>>
       ELSE IF ~PolicyPublished(policy, policyId)
         THEN resp' = [status |-> 404] /\ UNCHANGED <<user, endorsement>>
       ELSE
         /\ user' = user \cup {clerkId}
         /\ IF Personal(endorsement, clerkId, policyId) # {}
              THEN resp' = [status |-> 400] /\ endorsement' = endorsement
            ELSE
              /\ endorsement' = endorsement \cup {row}
              /\ resp' = [status |-> 201, endorsed |-> TRUE, count |-> count + 1]
    /\ calls' = calls
    /\ UNCHANGED <<organization, organizationMember, accessRequest, policy,
                   petitionSignature>>
    /\ UNCHANGED <<commentState, limiterState, client>>

Unendorse ==
  \E in \in EndorseInputs :
    LET clerkId == in[1]
        policyId == in[2]
        existing == Personal(endorsement, clerkId, policyId)
    IN
    /\ req' = [op |-> "unendorse", clerkId |-> clerkId, policyId |-> policyId]
    /\ IF clerkId = NoUser
         THEN resp' = [status |-> 401] /\ endorsement' = endorsement
       ELSE IF clerkId \notin user
         THEN resp' = [status |-> 404] /\ endorsement' = endorsement
       ELSE IF existing = {}
         THEN resp' = [status |-> 404] /\ endorsement' = endorsement
       ELSE LET row == CHOOSE e \in existing : TRUE
                count == CountAfterDelete(endorsement, row, policyId)
            IN
            /\ endorsement' = endorsement \ {row}
            /\ resp' = [status |-> 200, endorsed |-> FALSE, count |-> count - 1]
    /\ calls' = calls
    /\ UNCHANGED <<orgState, policy, petitionSignature>>
    /\ UNCHANGED <<commentState, limiterState, client>>

\* policyId "": the body has no policyId
OrgEndorseInputs(maxo) ==
  (Users \cup {NoUser}) \X OrgIds(maxo)
    \X (PolicyIds \cup {DraftPolicy, UnknownPolicy, ""})

EndorseAsOrganization(maxo) ==
  \E in \in OrgEndorseInputs(maxo) :
    LET clerkId == in[1]
        orgId == in[2]
        policyId == in[3]
        row == [userId |-> NullUser, policyId |-> policyId, organizationId |-> orgId]
    IN
    /\ req' = [op |-> "endorseAsOrganization", clerkId |-> clerkId,
               orgId |-> orgId, policyId |-> policyId]
    /\ IF clerkId = NoUser
         THEN resp' = [status |-> 401] /\ endorsement' = endorsement
       ELSE IF policyId = ""
         THEN resp' = [status |-> 400] /\ endorsement' = endorsement
       ELSE IF clerkId \notin user
         THEN resp' = [status |-> 404] /\ endorsement' = endorsement
       ELSE IF ~IsAdmin(organizationMember, clerkId, orgId)
         THEN resp' = [status |-> 403] /\ endorsement' = endorsement
       ELSE IF ~PolicyPublished(policy, policyId)
         THEN resp' = [status |-> 404] /\ endorsement' = endorsement
       ELSE IF \E e \in endorsement : e.organizationId = orgId /\ e.policyId = policyId
         THEN resp' = [status |-> 400] /\ endorsement' = endorsement
       ELSE
         /\ endorsement' = endorsement \cup {row}
         /\ resp' = [status |-> 201, endorsed |-> TRUE,
                     count |-> EndorsementCount(endorsement', policyId)]
    /\ calls' = calls
    /\ UNCHANGED <<orgState, policy, petitionSignature>>
    /\ UNCHANGED <<commentState, limiterState, client>>

ListEndorsements ==
  \E policyId \in PolicyIds \cup {DraftPolicy, UnknownPolicy} :
    /\ req' = [op |-> "listEndorsements", policyId |-> policyId]
    /\ resp' =
         IF ~PolicyFound(policy, policyId) THEN [status |-> 404]
         ELSE [status |-> 200,
               endorsements |-> {e \in endorsement : e.policyId = policyId}]
    /\ calls' = calls
    /\ UNCHANGED <<orgState, policyState>>
    /\ UNCHANGED <<commentState, limiterState, client>>

NextEndorse ==
  \/ CreateOrganization(EndorseOrgs, EndorseOrgs)
  \/ Endorse
  \/ Unendorse
  \/ EndorseAsOrganization(EndorseOrgs)
  \/ ListEndorsements

SpecEndorse == Init /\ [][NextEndorse]_vars

\* C24: the count in the answer of a successful POST or DELETE endorse is
\* the number of endorsements of the policy after the request, which is the
\* number of endorsements GET lists and the count the organization route
\* answers in that state.
C24_EndorseCount ==
  (req.op \in {"endorse", "unendorse"} /\ resp.status \in {200, 201})
    => resp.count = EndorsementCount(endorsement, req.policyId)

----------------------------------------------------------------------------
(* Petition signatures and their verification by e-mail.                   *)
(*                                                                         *)
(*   POST /api/policies/[id]/sign       SignPetition                       *)
(*   GET  /api/petitions/verify         VerifySignature                    *)
(*                                                                         *)
(* randomUUID() gives a token that no signature has had: the tokens are    *)
(* numbered in the order of issue, so that token k was issued to the row   *)
(* k of `petitionSignature` (no route deletes a signature).                *)

SignInputs ==
  (Users \cup {NoUser}) \X (PolicyIds \cup {DraftPolicy, UnknownPolicy})
    \X {"", "name"}

randomUUID(rows) == Len(rows) + 1

SignPetition ==
  \E in \in SignInputs :
    LET clerkId == in[1]
        policyId == in[2]
        fullName == in[3]
    IN
    /\ req' = [op |-> "sign", clerkId |-> clerkId, policyId |-> policyId,
               fullName |-> fullName]
    /\ IF clerkId = NoUser
         THEN resp' = [status |-> 401] /\ UNCHANGED <<user, petitionSignature>>
       ELSE IF fullName = ""
         THEN resp' = [status |-> 400] /\ UNCHANGED <<user, petitionSignature>>
       ELSE IF ~PolicyPublished(policy, policyId)
         THEN resp' = [status |-> 404] /\ UNCHANGED <<user, petitionSignature>>
       ELSE
         /\ user' = user \cup {clerkId}
         /\ IF \E k \in Ids(petitionSignature) :
                 /\ petitionSignature[k].policyId = policyId
                 /\ petitionSignature[k].userId = clerkId
              THEN resp' = [status |-> 400] /\ petitionSignature' = petitionSignature
            ELSE
              /\ petitionSignature' = Append(petitionSignature,
                   [policyId |-> policyId, userId |-> clerkId,
                    emailVerified |-> FALSE,
                    verificationToken |-> randomUUID(petitionSignature)])
              /\ resp' = [status |-> 201, signed |-> TRUE]
    /\ calls' = calls
    /\ UNCHANGED <<organization, organizationMember, accessRequest, policy,
                   endorsement>>
    /\ UNCHANGED <<commentState, limiterState, client>>

\* token Null: the request has no token; Len + 1: a token never issued
VerifyInputs == 0..(Len(petitionSignature) + 1)

VerifiedKeepsToken(row) == [row EXCEPT !.emailVerified = TRUE]

Verified(row) == [row EXCEPT !.emailVerified = TRUE, !.verificationToken = Null]

VerifySignature ==
  \E token \in VerifyInputs :
    LET found == {k \in Ids(petitionSignature) :
                    petitionSignature[k].verificationToken = token}
    IN
    /\ req' = [op |-> "verify", token |-> token]
    /\ IF token = Null
         THEN resp' = [status |-> 400] /\ petitionSignature' = petitionSignature
       ELSE IF found = {}
         THEN resp' = [status |-> 404] /\ petitionSignature' = petitionSignature
       ELSE LET k == CHOOSE k \in found : TRUE IN
         IF petitionSignature[k].emailVerified
           THEN /\ resp' = [status |-> 200, verified |-> "already"]
                /\ petitionSignature' = petitionSignature
         ELSE
           /\ petitionSignature' =
                [petitionSignature EXCEPT ![k] = Verified(petitionSignature[k])]
           /\ resp' = [status |-> 200, verified |-> "now"]
    /\ calls' = calls
    /\ UNCHANGED <<orgState, policy, endorsement>>
    /\ UNCHANGED <<commentState, limiterState, client>>

NextPetition == SignPetition \/ VerifySignature

SpecPetition == Init /\ [][NextPetition]_vars

\* C25: a signature is created unverified with a token no signature has
\* had; the first verify call with the token of a signature verifies it and
\* clears the token; a verify call with a token that was used, or was never
\* issued, is answered 404 and changes nothing; a verified signature stays
\* verified; and a signature is verified exactly when its token is null.
C25_VerifyOnce ==
  [][LET old == petitionSignature
         new == petitionSignature'
     IN
     /\ Len(new) >= Len(old)
     /\ \A k \in Ids(new) : new[k].emailVerified = (new[k].verificationToken = Null)
     /\ \A k \in Ids(old) : old[k].emailVerified => new[k].emailVerified
     /\ \A k \in Ids(new) \ Ids(old) :
          /\ ~new[k].emailVerified
          /\ \A j \in Ids(old) : new[k].verificationToken # j
          /\ \A j \in Ids(new) \ {k} :
               new[k].verificationToken # new[j].verificationToken
     /\ (req'.op = "verify" /\ req'.token # Null) =>
          IF req'.token \in Ids(old) /\ ~old[req'.token].emailVerified
            THEN /\ resp'.status = 200
                 /\ new = [old EXCEPT ![req'.token].emailVerified = TRUE,
                                      ![req'.token].verificationToken = Null]
          ELSE resp'.status = 404 /\ new = old]_vars

\* the token of a verified signature is presented again and refused
C25_Witness ==
  /\ req.op = "verify" /\ resp.status = 404
  /\ req.token \in Ids(petitionSignature)
  /\ petitionSignature[req.token].emailVerified
  /\ petitionSignature[req.token].verificationToken = Null

----------------------------------------------------------------------------
(* The policies a user is shown.                                           *)
(*                                                                         *)
(*   GET /api/policies              ListPolicies                           *)
(*   GET /api/policies/accessible   ListAccessible                         *)
(*                                                                         *)
(* The answer is taken as the set of the ids of its policies; the stores   *)
(* hold fewer policies than either `take`.                                 *)

\* the organizations of the memberships of a user, and their parents
AccessibleOrgIds(orgs, members, userId) ==
  LET own == {m.organizationId : m \in {m \in members : m.userId = userId}} IN
  own \cup {o.parentId : o \in {o \in orgs : o.id \in own /\ o.parentId # Null}}

\* where: { published: true, deletedAt: null, organizationId: filter }; a
\* filter that is undefined is no condition
PublishedIn(rows, orgIds, filtered) ==
  {r.id : r \in {r \in rows :
     /\ r.published /\ r.deletedAt = Null
     /\ filtered => r.organizationId \in orgIds}}

ListPolicies ==
  \E clerkId \in Users \cup {NoUser} :
    LET orgIds == AccessibleOrgIds(organization, organizationMember, clerkId) IN
    /\ req' = [op |-> "listPolicies", clerkId |-> clerkId]
    /\ resp' =
         IF clerkId = NoUser THEN [status |-> 200, policies |-> {}]
         ELSE IF clerkId \notin user THEN [status |-> 200, policies |-> {}]
         ELSE [status |-> 200,
               policies |-> PublishedIn(policy, orgIds, orgIds # {})]
    /\ calls' = calls
    /\ UNCHANGED <<orgState, policyState>>
    /\ UNCHANGED <<commentState, limiterState, client>>

ListAccessible ==
  \E clerkId \in Users \cup {NoUser} :
    LET orgIds == AccessibleOrgIds(organization, organizationMember, clerkId) IN
    /\ req' = [op |-> "listAccessible", clerkId |-> clerkId]
    /\ resp' =
         IF clerkId = NoUser THEN [status |-> 401]
         ELSE IF clerkId \notin user THEN [status |-> 200, policies |-> {}]
         ELSE IF orgIds = {} THEN [status |-> 200, policies |-> {}]
         ELSE [status |-> 200, policies |-> PublishedIn(policy, orgIds, TRUE)]
    /\ calls' = calls
    /\ UNCHANGED <<orgState, policyState>>
    /\ UNCHANGED <<commentState, limiterState, client>>

\* two organizations, the second with or without the first as its parent;
\* every combination of memberships of the users; three policies, of an
\* organization or of none, published or not, deleted or not
PolicyStores ==
  {{[id |-> "p1", organizationId |-> o[1], published |-> TRUE, deletedAt |-> Null],
    [id |-> "p2", organizationId |-> o[2], published |-> b, deletedAt |-> Null],
    [id |-> "p3", organizationId |-> 1, published |-> TRUE, deletedAt |-> d]} :
     o \in [1..2 -> {Null, 1, 2}], b \in BOOLEAN, d \in {Null, SomeDate}}

MemberStores ==
  {{[userId |-> p[1], organizationId |-> p[2], role |-> "member"] :
      p \in {p \in Users \X (1..2) : p[2] \in f[p[1]]}} :
     f \in [Users -> SUBSET (1..2)]}

InitVisible ==
  /\ comments = <<>>
  /\ req = [op |-> "none"]
  /\ resp = [status |-> 0]
  /\ fetched = <<>>
  /\ chain = <<>>
  /\ calls = NoCalls
  /\ InitLimiter
  /\ InitClient
  /\ user \in SUBSET Users
  /\ \E parentId \in {Null, 1} :
       organization = {[id |-> 1, parentId |-> Null], [id |-> 2, parentId |-> parentId]}
  /\ organizationMember \in {ms \in MemberStores : \A m \in ms : m.userId \in user}
  /\ accessRequest = <<>>
  /\ policy \in PolicyStores
  /\ endorsement = {}
  /\ petitionSignature = <<>>

NextVisible == ListPolicies \/ ListAccessible

SpecVisible == InitVisible /\ [][NextVisible]_vars

\* the user is a member of the organization, or of one whose parent it is
MayAccess(userId, orgId) ==
  \E m \in organizationMember :
    /\ m.userId = userId
    /\ \/ m.organizationId = orgId
       \/ \E o \in organization : o.id = m.organizationId /\ o.parentId = orgId

\* C26: a policy of an organization in the answer of GET /api/policies is
\* a policy of an organization the signed-in user may access, also for a
\* user without any membership.
C26_OrgPoliciesForMembersOnly ==
  req.op = "listPolicies" =>
    \A r \in policy :
      (r.id \in resp.policies /\ r.organizationId # Null) =>
        (req.clerkId # NoUser /\ MayAccess(req.clerkId, r.organizationId))

----------------------------------------------------------------------------
(* Votes and soft deletion in flight at the same time *)

\* C29: the vote counters of a comment that is soft-deleted do not change,
\* however the queries of a Vote request and of a DELETE request on the
\* comment interleave.
C29_NoVoteAfterDelete ==
  [][\A i \in Ids(comments) :
       comments[i].deletedAt # Null =>
         /\ comments'[i].upvotes = comments[i].upvotes
         /\ comments'[i].downvotes = comments[i].downvotes]_vars

----------------------------------------------------------------------------
(* The comment section of the policy page: the list of top-level comments  *)
(* it has loaded, by the ids of the comments; the store does not change    *)
(* while the section is used.                                               *)

SortModes == {"newest", "popular", "controversial"}

\* fetchComments(sortMode, cursor) after an answer data with status 200
Fetched(cl, sortMode, cursor, data) ==
  [sort |-> sortMode,
   comments |-> IF cursor # Null THEN cl.comments \o ItemIds(data.comments)
                ELSE ItemIds(data.comments),
   hasMore |-> data.hasMore,
   nextCursor |-> data.nextCursor]

\* the effect on [fetchComments, sort]: the section is mounted, or a sort
\* mode is selected
SelectSort(tk, win) ==
  \E sortMode \in SortModes :
    /\ req' = [op |-> "list", policyId |-> ThePolicy, sort |-> sortMode,
               cursor |-> Null]
    /\ \E run \in GET(comments, ThePolicy, sortMode, Null, tk, win) :
         /\ resp' = run.resp
         /\ fetched' = run.fetched
         /\ client' = IF run.resp.status = 200
                        THEN Fetched(client, sortMode, Null, run.resp)
                      ELSE [client EXCEPT !.sort = sortMode]
    /\ UNCHANGED <<comments, chain, calls>>
    /\ UNCHANGED <<limiterState, orgState, policyState>>

\* a click on "Load More Comments", shown while hasMore
LoadMore(tk, win, maxl) ==
  /\ client.hasMore
  /\ Len(client.comments) < maxl
  /\ req' = [op |-> "list", policyId |-> ThePolicy, sort |-> client.sort,
             cursor |-> client.nextCursor]
  /\ \E run \in GET(comments, ThePolicy, client.sort, client.nextCursor, tk, win) :
       /\ resp' = run.resp
       /\ fetched' = run.fetched
       /\ client' = IF run.resp.status = 200
                      THEN Fetched(client, client.sort, client.nextCursor, run.resp)
                    ELSE client
  /\ UNCHANGED <<comments, chain, calls>>
  /\ UNCHANGED <<limiterState, orgState, policyState>>

InitSection ==
  /\ comments \in RankStores
  /\ req = [op |-> "none"]
  /\ resp = [status |-> 0]
  /\ fetched = <<>>
  /\ chain = <<>>
  /\ calls = NoCalls
  /\ InitOthers

NextSection == SelectSort(take, Window) \/ LoadMore(take, Window, MaxListed)

SpecSection == InitSection /\ [][NextSection]_vars

\* C28: the list of the comment section holds no comment id twice, after
\* any selections of a sort mode and clicks on "Load More Comments".
C28_ClientListDistinct == NoDuplicates(client.comments)

----------------------------------------------------------------------------
(* A caller that pages through the newest listing: each call sends the     *)
(* nextCursor of the answer before it, as long as the answer says hasMore. *)
(* The store does not change.  `call` is the parity of the number of       *)
(* calls made.                                                              *)

\* threads A = 1 and B = 2 with one reply each (3 under A, 4 under B) and
\* the top-level comments C = 5 and D = 6, every comment live or
\* soft-deleted
FollowStores ==
  {<<ScenarioRow(Null, d[1], 1, 0, 0), ScenarioRow(Null, d[2], 2, 0, 0),
     ScenarioRow(1, d[3], 3, 0, 0), ScenarioRow(2, d[4], 4, 0, 0),
     ScenarioRow(Null, d[5], 5, 0, 0), ScenarioRow(Null, d[6], 6, 0, 0)>> :
     d \in [1..6 -> {Null, SomeDate}]}

FirstPage(tk, win) ==
  /\ req.op = "none"
  /\ req' = [op |-> "list", policyId |-> ThePolicy, sort |-> "newest",
             cursor |-> Null, call |-> 1]
  /\ \E run \in GET(comments, ThePolicy, "newest", Null, tk, win) :
       resp' = run.resp /\ fetched' = run.fetched
  /\ UNCHANGED <<comments, chain, calls>>
  /\ UNCHANGED others

FollowCursor(tk, win) ==
  /\ req.op = "list" /\ resp.status = 200 /\ resp.hasMore
  /\ req' = [op |-> "list", policyId |-> ThePolicy, sort |-> "newest",
             cursor |-> resp.nextCursor, call |-> 1 - req.call]
  /\ \E run \in GET(comments, ThePolicy, "newest", resp.nextCursor, tk, win) :
       resp' = run.resp /\ fetched' = run.fetched
  /\ UNCHANGED <<comments, chain, calls>>
  /\ UNCHANGED others

InitFollow ==
  /\ comments \in FollowStores
  /\ req = [op |-> "none"]
  /\ resp = [status |-> 0]
  /\ fetched = <<>>
  /\ chain = <<>>
  /\ calls = NoCalls
  /\ InitOthers

NextFollow == FirstPage(SmallTake, SmallWindow) \/ FollowCursor(SmallTake, SmallWindow)

\* the caller goes on calling while there is more to load
SpecFollow == InitFollow /\ [][NextFollow]_vars /\ WF_vars(NextFollow)

\* C27: a caller that follows nextCursor through the newest listing of a
\* store that does not change gets an answer with hasMore = false after
\* finitely many calls.
C27_NewestPagingEnds ==
  <>(req.op = "list" /\ resp.status = 200 /\ ~resp.hasMore)

====
